---- MODULE Spec2Model ----
(***************************************************************************)
(* scrumtask-cli: the Data Store (epics, stories, one id counter) and the  *)
(* Navigator's page stack, driven by Navigator::handle_action.             *)
(*                                                                         *)
(* src/models.rs     Action, Status, Epic, Story, DBState                  *)
(* src/navigator.rs  Navigator::new, get_current_page, handle_action       *)
(* db.rs (JiraDatabase) is not part of the sources at hand: its            *)
(* operations are modelled from section 4.1 of the specification.          *)
(***************************************************************************)
EXTENDS Integers, Sequences, FiniteSets, TLC

(* ------------------------------ bounds --------------------------------- *)

\* cap on DBState.last_item_id (a u32 in the code) in SpecStore
MaxId == 4
\* cap on DBState.last_item_id in Spec, where the page stack varies too
MaxItems == 2
\* cap on the depth of Navigator.pages (an unbounded Vec in the code)
MaxPages == 3
\* longest text and largest width handed to get_column_string
MaxTextLen == 6
MaxWidth == 7

\* ids a persistence action may carry: issued ones, deleted ones, and (for
\* MaxId, as long as the counter is below its cap) never issued ones
Ids == 1..MaxId
ItemIds == 1..MaxItems

\* the pages a navigation action may push: an epic id and a story id, as in
\* tests::handle_action_should_navigate_pages; each may or may not exist
NavEpicIds == {1}
NavStoryIds == {2}

\* what the create prompts return as a name, and the update-status prompt
\* as a status ("None": no selection)
EpicNames == {"A"}
StoryNames == {"B"}
StatusChoices == {"None", "Open", "InProgress"}

(* ------------------------------ models.rs ------------------------------ *)

Status == {"Open", "InProgress", "Resolved", "Closed"}

Epic_new(name, description) ==
    [name |-> name, description |-> description, status |-> "Open", stories |-> <<>>]

Story_new(name, description) ==
    [name |-> name, description |-> description, status |-> "Open"]

\* an empty HashMap
HashMap_new == [k \in {} |-> 0]

\* mutant: the counter starts at 1
DBState_new_from_one ==
    [last_item_id |-> 1, epics |-> HashMap_new, stories |-> HashMap_new]

DBState_new ==
    [last_item_id |-> 0, epics |-> HashMap_new, stories |-> HashMap_new]

\* HashMap::insert, HashMap::remove
insert(map, k, v) == [x \in (DOMAIN map) \cup {k} |-> IF x = k THEN v ELSE map[x]]
remove(map, k) == [x \in (DOMAIN map) \ {k} |-> map[x]]

\* the elements of a Vec
Range(seq) == {seq[i] : i \in 1..Len(seq)}

(* ---------------------- Data Store (specification 4.1) ------------------ *)
\* Every operation reads the full state, mutates it in memory and rewrites
\* it in full; write_ok = FALSE is a failed write, which leaves the
\* persisted state as it was.  The result is [state, res, id].

Ok(state, id) == [state |-> state, res |-> "Ok", id |-> id]
Err(state, kind) == [state |-> state, res |-> kind, id |-> 0]

create_epic(state, epic, write_ok) ==
    LET id == state.last_item_id + 1
        parsed == [state EXCEPT !.last_item_id = id,
                                !.epics = insert(state.epics, id, epic)]
    IN  IF write_ok THEN Ok(parsed, id) ELSE Err(state, "WriteError")

\* mutant: the story is inserted but its id is not added to the epic's list
create_story_orphan(state, story, epic_id, write_ok) ==
    IF epic_id \notin DOMAIN state.epics THEN Err(state, "NotFound")
    ELSE LET id == state.last_item_id + 1
             parsed == [state EXCEPT
                 !.last_item_id = id,
                 !.stories = insert(state.stories, id, story)]
         IN  IF write_ok THEN Ok(parsed, id) ELSE Err(state, "WriteError")

\* mutant: the new id is put at the front of the epic's list
create_story_prepend(state, story, epic_id, write_ok) ==
    IF epic_id \notin DOMAIN state.epics THEN Err(state, "NotFound")
    ELSE LET id == state.last_item_id + 1
             epic == state.epics[epic_id]
             parsed == [state EXCEPT
                 !.last_item_id = id,
                 !.stories = insert(state.stories, id, story),
                 !.epics = insert(state.epics, epic_id,
                                  [epic EXCEPT !.stories = <<id>> \o epic.stories])]
         IN  IF write_ok THEN Ok(parsed, id) ELSE Err(state, "WriteError")

\* mutant: the id is taken before the epic is looked up
create_story_eager_id(state, story, epic_id, write_ok) ==
    LET id == state.last_item_id + 1
        taken == [state EXCEPT !.last_item_id = id]
    IN  IF epic_id \notin DOMAIN state.epics THEN Err(taken, "NotFound")
        ELSE LET epic == state.epics[epic_id]
                 parsed == [taken EXCEPT
                     !.stories = insert(state.stories, id, story),
                     !.epics = insert(state.epics, epic_id,
                                      [epic EXCEPT !.stories = Append(epic.stories, id)])]
             IN  IF write_ok THEN Ok(parsed, id) ELSE Err(state, "WriteError")

create_story(state, story, epic_id, write_ok) ==
    IF epic_id \notin DOMAIN state.epics THEN Err(state, "NotFound")
    ELSE LET id == state.last_item_id + 1
             epic == state.epics[epic_id]
             parsed == [state EXCEPT
                 !.last_item_id = id,
                 !.stories = insert(state.stories, id, story),
                 !.epics = insert(state.epics, epic_id,
                                  [epic EXCEPT !.stories = Append(epic.stories, id)])]
         IN  IF write_ok THEN Ok(parsed, id) ELSE Err(state, "WriteError")

update_epic_status(state, epic_id, status, write_ok) ==
    IF epic_id \notin DOMAIN state.epics THEN Err(state, "NotFound")
    ELSE LET parsed == [state EXCEPT !.epics[epic_id].status = status]
         IN  IF write_ok THEN Ok(parsed, 0) ELSE Err(state, "WriteError")

update_story_status(state, story_id, status, write_ok) ==
    IF story_id \notin DOMAIN state.stories THEN Err(state, "NotFound")
    ELSE LET parsed == [state EXCEPT !.stories[story_id].status = status]
         IN  IF write_ok THEN Ok(parsed, 0) ELSE Err(state, "WriteError")

\* mutant: the epic is removed, its stories are left in the table
delete_epic_no_cascade(state, epic_id, write_ok) ==
    IF epic_id \notin DOMAIN state.epics THEN Err(state, "NotFound")
    ELSE LET parsed == [state EXCEPT !.epics = remove(state.epics, epic_id)]
         IN  IF write_ok THEN Ok(parsed, 0) ELSE Err(state, "WriteError")

delete_epic(state, epic_id, write_ok) ==
    IF epic_id \notin DOMAIN state.epics THEN Err(state, "NotFound")
    ELSE LET gone == Range(state.epics[epic_id].stories)
             parsed == [state EXCEPT
                 !.stories = [x \in (DOMAIN state.stories) \ gone |-> state.stories[x]],
                 !.epics = remove(state.epics, epic_id)]
         IN  IF write_ok THEN Ok(parsed, 0) ELSE Err(state, "WriteError")

\* mutant: the id is removed from the list as Vec::swap_remove does, the
\* last id taking its place
delete_story_swap_remove(state, epic_id, story_id, write_ok) ==
    IF epic_id \notin DOMAIN state.epics THEN Err(state, "NotFound")
    ELSE LET epic == state.epics[epic_id]
             n == Len(epic.stories)
             swapped == [k \in 1..(n - 1) |->
                            IF epic.stories[k] = story_id THEN epic.stories[n]
                            ELSE epic.stories[k]]
             parsed == [state EXCEPT
                 !.epics = insert(state.epics, epic_id,
                     [epic EXCEPT !.stories =
                         IF story_id \in Range(epic.stories) THEN swapped ELSE epic.stories]),
                 !.stories = remove(state.stories, story_id)]
         IN  IF write_ok THEN Ok(parsed, 0) ELSE Err(state, "WriteError")

delete_story(state, epic_id, story_id, write_ok) ==
    IF epic_id \notin DOMAIN state.epics THEN Err(state, "NotFound")
    ELSE LET epic == state.epics[epic_id]
             parsed == [state EXCEPT
                 !.epics = insert(state.epics, epic_id,
                     [epic EXCEPT !.stories = SelectSeq(epic.stories, LAMBDA id : id # story_id)]),
                 !.stories = remove(state.stories, story_id)]
         IN  IF write_ok THEN Ok(parsed, 0) ELSE Err(state, "WriteError")

(* ----------------------- ui/pages/page_helpers.rs ----------------------- *)
\* A str is the sequence of its characters, each one byte long.

Chars == {"a", "b"}
Strs(n) == UNION {[1..k -> Chars] : k \in 0..n}

\* str::repeat
repeat(c, n) == [i \in 1..n |-> c]

\* Ellipse::truncate_ellipse of the ellipse crate: a text longer than len is
\* cut to its first len characters and "..." is appended
truncate_ellipse(text, len) ==
    IF Len(text) > len THEN SubSeq(text, 1, len) \o <<".", ".", ".">> ELSE text

\* mutant: the text is cut to width characters before the dots
get_column_string_cut(text, width) ==
    IF width = 0 THEN <<>>
    ELSE IF width = 1 THEN <<".">>
    ELSE IF width = 2 THEN <<".", ".">>
    ELSE IF width = 3 THEN <<".", ".", ".">>
    ELSE LET length == Len(text)
         IN  IF width = length THEN text
             ELSE IF width > length THEN text \o repeat(" ", width - length)
             ELSE truncate_ellipse(text, width)

get_column_string(text, width) ==
    IF width = 0 THEN <<>>
    ELSE IF width = 1 THEN <<".">>
    ELSE IF width = 2 THEN <<".", ".">>
    ELSE IF width = 3 THEN <<".", ".", ".">>
    ELSE LET length == Len(text)
         IN  IF width = length THEN text
             ELSE IF width > length THEN text \o repeat(" ", width - length)
             ELSE truncate_ellipse(text, width - 3)

(* ------------------------------ navigator.rs --------------------------- *)

HomePage == [kind |-> "HomePage", epic_id |-> 0, story_id |-> 0]
EpicDetail(epic_id) == [kind |-> "EpicDetail", epic_id |-> epic_id, story_id |-> 0]

\* mutant: the two ids are stored in each other's field
StoryDetail_swapped(epic_id, story_id) ==
    [kind |-> "StoryDetail", epic_id |-> story_id, story_id |-> epic_id]

StoryDetail(epic_id, story_id) ==
    [kind |-> "StoryDetail", epic_id |-> epic_id, story_id |-> story_id]

\* mutant: the oldest page is removed instead of the newest
pop_front(ps) == IF ps = <<>> THEN <<>> ELSE Tail(ps)

\* mutant: the last remaining page is never removed
pop_keep_last(ps) == IF Len(ps) <= 1 THEN ps ELSE SubSeq(ps, 1, Len(ps) - 1)

\* Vec::pop as handle_action uses it: the popped page is discarded
pop(ps) == IF ps = <<>> THEN <<>> ELSE SubSeq(ps, 1, Len(ps) - 1)

VARIABLES
    db,      \* the DBState behind Navigator.db
    pages,   \* Navigator.pages, bottom first
    issued,  \* history: the ids the store has returned, oldest first
    ret,     \* history: the last handle_action call and what it returned
    main,    \* main's loop: where it is, and its locals `page` and `action`
    column   \* a call of get_column_string: its arguments and what it returned

vars == <<db, pages, issued, ret, main, column>>

\* Navigator::new
Navigator_new == <<HomePage>>

\* Navigator::get_current_page: the top page, or None
None == [kind |-> "None", epic_id |-> 0, story_id |-> 0]
get_current_page(ps) == IF ps = <<>> THEN None ELSE ps[Len(ps)]

\* what a call leaves in ret: the action and Ok or the error
Call(action, res) == [action |-> action, res |-> res]

\* main before the first iteration of its loop; prev is history: the page
\* of the iteration before
main_start == [pc |-> "get_current_page", page |-> None, prev |-> None, action |-> None]

\* no call of get_column_string made; a str is the sequence of its characters
column_none == [text |-> <<>>, width |-> 0, out |-> <<>>, called |-> FALSE]

Init ==
    /\ db = DBState_new
    /\ pages = Navigator_new
    /\ issued = <<>>
    /\ ret = Call("new", "Ok")
    /\ main = main_start
    /\ column = column_none

\* a store call made by handle_action: the persisted state is replaced, an
\* id that was returned is remembered
Store(r) ==
    /\ db' = r.state
    /\ issued' = IF r.res = "Ok" /\ r.id # 0 THEN Append(issued, r.id) ELSE issued

NavigateToEpicDetail(epic_id) ==
    /\ pages' = Append(pages, EpicDetail(epic_id))
    /\ ret' = Call("NavigateToEpicDetail", "Ok")
    /\ UNCHANGED <<db, issued>>

NavigateToStoryDetail(epic_id, story_id) ==
    /\ pages' = Append(pages, StoryDetail(epic_id, story_id))
    /\ ret' = Call("NavigateToStoryDetail", "Ok")
    /\ UNCHANGED <<db, issued>>

\* mutant: two pages are removed
NavigateToPreviousPage_twice ==
    /\ pages' = pop(pop(pages))
    /\ ret' = Call("NavigateToPreviousPage", "Ok")
    /\ UNCHANGED <<db, issued>>

NavigateToPreviousPage ==
    /\ pages' = pop(pages)
    /\ ret' = Call("NavigateToPreviousPage", "Ok")
    /\ UNCHANGED <<db, issued>>

\* name: what prompts.create_epic returns
CreateEpic(name, write_ok) ==
    /\ LET r == create_epic(db, Epic_new(name, ""), write_ok)
       IN  /\ Store(r)
           /\ ret' = Call("CreateEpic", r.res)
    /\ UNCHANGED pages

\* mutant: no selection also goes back to the previous page
UpdateEpicStatus_back(epic_id, status, write_ok) ==
    /\ IF status = "None"
       THEN /\ ret' = Call("UpdateEpicStatus", "InvalidStatus")
            /\ pages' = pop(pages)
            /\ UNCHANGED <<db, issued>>
       ELSE LET r == update_epic_status(db, epic_id, status, write_ok)
            IN  /\ Store(r)
                /\ ret' = Call("UpdateEpicStatus", r.res)
                /\ UNCHANGED pages

\* status: what prompts.update_status returns; Option::with_context turns
\* None into an error, which `?` returns
UpdateEpicStatus(epic_id, status, write_ok) ==
    /\ IF status = "None"
       THEN /\ ret' = Call("UpdateEpicStatus", "InvalidStatus")
            /\ UNCHANGED <<db, issued>>
       ELSE LET r == update_epic_status(db, epic_id, status, write_ok)
            IN  /\ Store(r)
                /\ ret' = Call("UpdateEpicStatus", r.res)
    /\ UNCHANGED pages

\* mutant: a deleted epic's page is left by going back one page
DeleteEpic_back(epic_id, confirm, write_ok) ==
    /\ LET r == delete_epic(db, epic_id, write_ok)
       IN  /\ Store(r)
           /\ ret' = Call("DeleteEpic", r.res)
           /\ pages' = IF r.res = "Ok" THEN pop(pages) ELSE pages

\* confirm: what prompts.delete_epic would return; this arm never calls it
DeleteEpic(epic_id, confirm, write_ok) ==
    /\ LET r == delete_epic(db, epic_id, write_ok)
       IN  /\ Store(r)
           /\ ret' = Call("DeleteEpic", r.res)
    /\ UNCHANGED pages

\* name: what prompts.create_story returns
CreateStory(epic_id, name, write_ok) ==
    /\ LET r == create_story(db, Story_new(name, ""), epic_id, write_ok)
       IN  /\ Store(r)
           /\ ret' = Call("CreateStory", r.res)
    /\ UNCHANGED pages

\* mutant: the story's id is handed to update_epic_status
UpdateStoryStatus_epic(story_id, status, write_ok) ==
    /\ IF status = "None"
       THEN /\ ret' = Call("UpdateStoryStatus", "InvalidStatus")
            /\ UNCHANGED <<db, issued>>
       ELSE LET r == update_epic_status(db, story_id, status, write_ok)
            IN  /\ Store(r)
                /\ ret' = Call("UpdateStoryStatus", r.res)
    /\ UNCHANGED pages

UpdateStoryStatus(story_id, status, write_ok) ==
    /\ IF status = "None"
       THEN /\ ret' = Call("UpdateStoryStatus", "InvalidStatus")
            /\ UNCHANGED <<db, issued>>
       ELSE LET r == update_story_status(db, story_id, status, write_ok)
            IN  /\ Store(r)
                /\ ret' = Call("UpdateStoryStatus", r.res)
    /\ UNCHANGED pages

\* confirm: what prompts.delete_story returns
DeleteStory(epic_id, story_id, confirm, write_ok) ==
    /\ IF confirm
       THEN LET r == delete_story(db, epic_id, story_id, write_ok)
            IN  /\ Store(r)
                /\ ret' = Call("DeleteStory", r.res)
       ELSE /\ ret' = Call("DeleteStory", "Ok")
            /\ UNCHANGED <<db, issued>>
    /\ UNCHANGED pages

\* mutant: Exit removes the top page only
Exit_pop ==
    /\ pages' = pop(pages)
    /\ ret' = Call("Exit", "Ok")
    /\ UNCHANGED <<db, issued>>

Exit ==
    /\ pages' = <<>>
    /\ ret' = Call("Exit", "Ok")
    /\ UNCHANGED <<db, issued>>

(* --------------------------- specifications ---------------------------- *)

\* the outcomes of the write a call makes: it succeeds or fails when the
\* store is called, and there is none to fail when it is not
Writes(store_called) == IF store_called THEN BOOLEAN ELSE {TRUE}

\* a handle_action call made outside main's loop, as the tests make it
Idle == UNCHANGED <<main, column>>

\* Navigator::handle_action, one disjunct per Action, on a store of at most
\* MaxItems ids and a stack of at most MaxPages pages
Next ==
    \/ \E e \in NavEpicIds :
        Len(pages) < MaxPages /\ NavigateToEpicDetail(e) /\ Idle
    \/ \E e \in NavEpicIds, s \in NavStoryIds :
        Len(pages) < MaxPages /\ NavigateToStoryDetail(e, s) /\ Idle
    \/ NavigateToPreviousPage /\ Idle
    \/ \E n \in EpicNames, w \in BOOLEAN :
        db.last_item_id < MaxItems /\ CreateEpic(n, w) /\ Idle
    \/ \E e \in ItemIds, st \in StatusChoices : \E w \in Writes(st # "None") :
        UpdateEpicStatus(e, st, w) /\ Idle
    \/ \E e \in ItemIds, c \in BOOLEAN, w \in BOOLEAN : DeleteEpic(e, c, w) /\ Idle
    \/ \E e \in ItemIds, n \in StoryNames, w \in BOOLEAN :
        db.last_item_id < MaxItems /\ CreateStory(e, n, w) /\ Idle
    \/ \E s \in ItemIds, st \in StatusChoices : \E w \in Writes(st # "None") :
        UpdateStoryStatus(s, st, w) /\ Idle
    \/ \E e \in ItemIds, s \in ItemIds, c \in BOOLEAN : \E w \in Writes(c) :
        DeleteStory(e, s, c, w) /\ Idle
    \/ Exit /\ Idle

Spec == Init /\ [][Next]_vars

\* the persistence actions alone, on a store of at most MaxId ids
NextStore ==
    \/ \E n \in EpicNames, w \in BOOLEAN :
        db.last_item_id < MaxId /\ CreateEpic(n, w) /\ Idle
    \/ \E e \in Ids, st \in StatusChoices : \E w \in Writes(st # "None") :
        UpdateEpicStatus(e, st, w) /\ Idle
    \/ \E e \in Ids, c \in BOOLEAN, w \in BOOLEAN : DeleteEpic(e, c, w) /\ Idle
    \/ \E e \in Ids, n \in StoryNames, w \in BOOLEAN :
        db.last_item_id < MaxId /\ CreateStory(e, n, w) /\ Idle
    \/ \E s \in Ids, st \in StatusChoices : \E w \in Writes(st # "None") :
        UpdateStoryStatus(s, st, w) /\ Idle
    \/ \E e \in Ids, s \in Ids, c \in BOOLEAN : \E w \in Writes(c) :
        DeleteStory(e, s, c, w) /\ Idle

SpecStore == Init /\ [][NextStore]_vars

\* everything prompts.update_status may return: any Status, or no selection
AnyStatusChoice == Status \cup {"None"}

\* creating items and updating their status, with every Status as the
\* prompt's answer, on a store of at most MaxItems ids
NextStatus ==
    \/ \E n \in EpicNames, w \in BOOLEAN :
        db.last_item_id < MaxItems /\ CreateEpic(n, w) /\ Idle
    \/ \E e \in ItemIds, n \in StoryNames, w \in BOOLEAN :
        db.last_item_id < MaxItems /\ CreateStory(e, n, w) /\ Idle
    \/ \E e \in ItemIds, st \in AnyStatusChoice : \E w \in Writes(st # "None") :
        UpdateEpicStatus(e, st, w) /\ Idle
    \/ \E s \in ItemIds, st \in AnyStatusChoice : \E w \in Writes(st # "None") :
        UpdateStoryStatus(s, st, w) /\ Idle

SpecStatus == Init /\ [][NextStatus]_vars

(* -------------------------------- main.rs ------------------------------ *)

\* an Action of models.rs with its fields (0: the Action has no such field)
Act(kind, epic_id, story_id) == [kind |-> kind, epic_id |-> epic_id, story_id |-> story_id]

\* the Actions page.handle_input may return: the pages are not part of the
\* sources at hand, so any Action of models.rs, for any page
InputActions ==
    {Act("NavigateToPreviousPage", 0, 0), Act("Exit", 0, 0), Act("CreateEpic", 0, 0)}
    \cup {Act("NavigateToEpicDetail", e, 0) : e \in NavEpicIds}
    \cup {Act("NavigateToStoryDetail", e, s) : e \in NavEpicIds, s \in NavStoryIds}
    \cup {Act(k, e, 0) : k \in {"UpdateEpicStatus", "DeleteEpic", "CreateStory"}, e \in ItemIds}
    \cup {Act("UpdateStoryStatus", 0, s) : s \in ItemIds}
    \cup {Act("DeleteStory", e, s) : e \in ItemIds, s \in ItemIds}

\* the caps of Spec, put on what handle_input returns: no push onto a full
\* stack, no create in a full store
Offered(action) ==
    /\ action.kind \in {"NavigateToEpicDetail", "NavigateToStoryDetail"}
            => Len(pages) < MaxPages
    /\ action.kind \in {"CreateEpic", "CreateStory"} => db.last_item_id < MaxItems

\* 1. nav.get_current_page(): None ends the loop with Ok(())
GetCurrentPage ==
    /\ main.pc = "get_current_page"
    /\ main' = IF get_current_page(pages) = None
               THEN [main EXCEPT !.pc = "Ok"]
               ELSE [main EXCEPT !.pc = "draw_page",
                                 !.page = get_current_page(pages),
                                 !.prev = main.page]
    /\ UNCHANGED <<db, pages, issued, ret, column>>

\* 2. page.draw_page(); ok: whether it returns Ok
DrawPage(ok) ==
    /\ main.pc = "draw_page"
    /\ main' = [main EXCEPT !.pc = IF ok THEN "get_user_input" ELSE "Err"]
    /\ UNCHANGED <<db, pages, issued, ret, column>>

\* 3. io_utils::get_user_input(): the line read decides what handle_input
\* returns and is not kept
GetUserInput ==
    /\ main.pc = "get_user_input"
    /\ main' = [main EXCEPT !.pc = "handle_input"]
    /\ UNCHANGED <<db, pages, issued, ret, column>>

\* 4. page.handle_input(): Err ends the loop, Ok(None) starts the next
\* iteration, Ok(Some(action)) goes on to handle_action
HandleInput(ok, action) ==
    /\ main.pc = "handle_input"
    /\ main' = IF ~ok THEN [main EXCEPT !.pc = "Err"]
               ELSE [main EXCEPT !.action = action,
                                 !.pc = IF action = None THEN "get_current_page"
                                        ELSE "handle_action"]
    /\ UNCHANGED <<db, pages, issued, ret, column>>

\* 5. nav.handle_action(a), for the Action handle_input returned
Dispatch(kind) == main.pc = "handle_action" /\ main.action.kind = kind

\* mutant: an error of handle_action does not end the loop
Returned_ignored ==
    /\ main' = [main EXCEPT !.pc = "get_current_page"]
    /\ UNCHANGED column

\* an error of handle_action ends the loop, Ok starts the next iteration
Returned ==
    /\ main' = [main EXCEPT !.pc = IF ret'.res = "Ok" THEN "get_current_page" ELSE "Err"]
    /\ UNCHANGED column

NextMain ==
    \/ GetCurrentPage
    \/ \E ok \in BOOLEAN : DrawPage(ok)
    \/ GetUserInput
    \/ \E ok \in BOOLEAN : \E a \in IF ok THEN {None} \cup InputActions ELSE {None} :
        Offered(a) /\ HandleInput(ok, a)
    \/ Dispatch("NavigateToEpicDetail")
        /\ NavigateToEpicDetail(main.action.epic_id) /\ Returned
    \/ Dispatch("NavigateToStoryDetail")
        /\ NavigateToStoryDetail(main.action.epic_id, main.action.story_id) /\ Returned
    \/ Dispatch("NavigateToPreviousPage") /\ NavigateToPreviousPage /\ Returned
    \/ \E n \in EpicNames, w \in BOOLEAN :
        Dispatch("CreateEpic") /\ CreateEpic(n, w) /\ Returned
    \/ \E st \in StatusChoices : \E w \in Writes(st # "None") :
        Dispatch("UpdateEpicStatus")
        /\ UpdateEpicStatus(main.action.epic_id, st, w) /\ Returned
    \/ \E c \in BOOLEAN, w \in BOOLEAN :
        Dispatch("DeleteEpic") /\ DeleteEpic(main.action.epic_id, c, w) /\ Returned
    \/ \E n \in StoryNames, w \in BOOLEAN :
        Dispatch("CreateStory") /\ CreateStory(main.action.epic_id, n, w) /\ Returned
    \/ \E st \in StatusChoices : \E w \in Writes(st # "None") :
        Dispatch("UpdateStoryStatus")
        /\ UpdateStoryStatus(main.action.story_id, st, w) /\ Returned
    \/ \E c \in BOOLEAN : \E w \in Writes(c) :
        Dispatch("DeleteStory")
        /\ DeleteStory(main.action.epic_id, main.action.story_id, c, w) /\ Returned
    \/ Dispatch("Exit") /\ Exit /\ Returned

SpecMain == Init /\ [][NextMain]_vars

(* ----------------------- a call of get_column_string -------------------- *)

\* one call of get_column_string, with any text of at most MaxTextLen
\* characters and any width up to MaxWidth
InitColumn ==
    /\ db = DBState_new
    /\ pages = Navigator_new
    /\ issued = <<>>
    /\ ret = Call("new", "Ok")
    /\ main = main_start
    /\ \E text \in Strs(MaxTextLen), width \in 0..MaxWidth :
        column = [column_none EXCEPT !.text = text, !.width = width]

GetColumnString ==
    /\ ~column.called
    /\ column' = [column EXCEPT !.out = get_column_string(column.text, column.width),
                                !.called = TRUE]
    /\ UNCHANGED <<db, pages, issued, ret, main>>

NextColumn == GetColumnString

SpecColumn == InitColumn /\ [][NextColumn]_vars

(* ------------------------------- claims -------------------------------- *)

\* the ids held by the `stories` lists of the epics
Listed(state) == UNION {Range(state.epics[e].stories) : e \in DOMAIN state.epics}

\* the places <<epic, index>> at which story id s is listed
Places(state, s) ==
    {p \in UNION {{<<e, i>> : i \in 1..Len(state.epics[e].stories)} : e \in DOMAIN state.epics} :
        state.epics[p[1]].stories[p[2]] = s}

\* C1: after every completed store operation, every story id in any epic's
\* `stories` list is a key of the `stories` table (no dangling story id).
C1_NoDanglingStoryId == Listed(db) \subseteq DOMAIN db.stories

\* C2: after every completed store operation, every key of `stories` is
\* listed by exactly one epic, exactly once.
C2_StoryOwnedOnce == \A s \in DOMAIN db.stories : Cardinality(Places(db, s)) = 1

\* C2 witness: two epics own a story each
C2_Witness ==
    /\ ret = Call("CreateStory", "Ok")
    /\ \E e1, e2 \in DOMAIN db.epics :
        e1 # e2 /\ db.epics[e1].stories # <<>> /\ db.epics[e2].stories # <<>>

\* C3: ids come from one counter: each id returned by a create exceeds every
\* id issued before it, the first two are 1 and 2, last_item_id never
\* decreases and is at least every key of `epics` and `stories`.
C3_IdsStrictlyIncrease ==
    /\ [](/\ \A i, j \in 1..Len(issued) : i < j => issued[i] < issued[j]
          /\ \A i \in 1..Len(issued) : issued[i] <= db.last_item_id
          /\ \A k \in (DOMAIN db.epics) \cup (DOMAIN db.stories) : k <= db.last_item_id
          /\ (DOMAIN db.epics) \cap (DOMAIN db.stories) = {}
          /\ Len(issued) >= 1 => issued[1] = 1
          /\ Len(issued) >= 2 => issued[2] = 2)
    /\ [][db'.last_item_id >= db.last_item_id]_vars

\* C3 witness: an epic and a story were created, one id was deleted and a
\* later create returned a greater id
C3_Witness ==
    /\ ret.action \in {"CreateEpic", "CreateStory"} /\ ret.res = "Ok"
    /\ Len(issued) >= 3
    /\ \E i \in 1..(Len(issued) - 1) : issued[i] \notin (DOMAIN db.epics) \cup (DOMAIN db.stories)
    /\ db.epics # HashMap_new /\ db.stories # HashMap_new

\* C4: delete_epic(e) on an existing epic removes e and every story of
\* e.stories, and leaves every other epic and story as it was.
C4_DeleteEpicCascades ==
    [][ret'.action = "DeleteEpic" =>
        \A e \in DOMAIN db.epics, c \in BOOLEAN :
          DeleteEpic(e, c, TRUE) =>
            /\ ret'.res = "Ok"
            /\ DOMAIN db'.epics = (DOMAIN db.epics) \ {e}
            /\ \A x \in DOMAIN db'.epics : db'.epics[x] = db.epics[x]
            /\ DOMAIN db'.stories = (DOMAIN db.stories) \ Range(db.epics[e].stories)
            /\ \A s \in DOMAIN db'.stories : db'.stories[s] = db.stories[s]
            /\ db'.last_item_id = db.last_item_id]_vars

\* C4 witness: an epic was deleted, another epic and its story are left
C4_Witness ==
    /\ ret = Call("DeleteEpic", "Ok")
    /\ Cardinality((1..db.last_item_id) \ ((DOMAIN db.epics) \cup (DOMAIN db.stories))) >= 2
    /\ \E e \in DOMAIN db.epics : db.epics[e].stories # <<>>

\* C5: create_story(s, e) fails with a not-found error iff e is absent; when
\* e exists, e.stories grows by one id appended at the end, a new key of
\* `stories` that maps to s.
C5_CreateStoryAppends ==
    [][ret'.action = "CreateStory" =>
        \A e \in Ids, n \in StoryNames, w \in BOOLEAN :
          CreateStory(e, n, w) =>
            /\ ret'.res = "NotFound" <=> e \notin DOMAIN db.epics
            /\ ret'.res = "NotFound" => db' = db
            /\ (e \in DOMAIN db.epics /\ w) =>
                 LET id == db'.last_item_id
                 IN  /\ ret'.res = "Ok"
                     /\ db'.epics[e].stories = Append(db.epics[e].stories, id)
                     /\ id \notin DOMAIN db.stories
                     /\ DOMAIN db'.stories = (DOMAIN db.stories) \cup {id}
                     /\ db'.stories[id] = Story_new(n, "")]_vars

\* C5 witness: a story was appended to an epic that already had one
C5_Witness ==
    /\ ret = Call("CreateStory", "Ok")
    /\ \E e \in DOMAIN db.epics : Len(db.epics[e].stories) >= 2

\* C6: when the delete prompt answers no, DeleteEpic leaves the epic and its
\* stories untouched, DeleteStory leaves the story and its epic's list
\* untouched, and handle_action returns Ok (stated for an existing item and
\* a store whose writes succeed).
C6_DeclinedDeleteKeepsItem ==
    [][/\ ret'.action = "DeleteEpic" =>
            \A e \in DOMAIN db.epics :
                DeleteEpic(e, FALSE, TRUE) => (db' = db /\ ret'.res = "Ok")
       /\ ret'.action = "DeleteStory" =>
            \A e \in DOMAIN db.epics, s \in DOMAIN db.stories :
                DeleteStory(e, s, FALSE, TRUE) => (db' = db /\ ret'.res = "Ok")]_vars

\* C7: when the update-status prompt yields no selection, UpdateEpicStatus
\* and UpdateStoryStatus leave the store unchanged and handle_action returns
\* Ok.
C7_CancelledStatusUpdateIsOk ==
    [][ret'.action \in {"UpdateEpicStatus", "UpdateStoryStatus"} =>
         \A id \in ItemIds, w \in BOOLEAN :
            (UpdateEpicStatus(id, "None", w) \/ UpdateStoryStatus(id, "None", w)) =>
                (db' = db /\ ret'.res = "Ok")]_vars

\* C8: Exit from any stack depth, the empty stack included, returns Ok and
\* leaves no page, so that get_current_page is None; the store is not
\* modified.
C8_ExitClearsStack ==
    [][ret'.action = "Exit" =>
         /\ ret'.res = "Ok"
         /\ Len(pages') = 0
         /\ get_current_page(pages') = None
         /\ db' = db]_vars

\* C8 witness: Exit has emptied the stack while the store holds an epic
C8_Witness ==
    /\ ret = Call("Exit", "Ok")
    /\ pages = <<>>
    /\ db.epics # HashMap_new

\* C9: the page stack is LIFO: a new Navigator has the one page Home; a
\* navigation to a detail page puts that page on top of the pages there
\* were, and NavigateToPreviousPage right after it gives back the stack
\* there was, same pages in the same order.
C9_StackIsLifo ==
    /\ [](/\ ret.action = "new" => (Len(pages) = 1 /\ pages[1].kind = "HomePage")
          /\ \A e \in NavEpicIds, s \in NavStoryIds :
               LET three == Append(Append(Navigator_new, EpicDetail(e)), StoryDetail(e, s))
               IN  /\ get_current_page(pop(three)) = EpicDetail(e)
                   /\ pop(pop(three)) = <<HomePage>>)
    /\ [][ret'.action \in {"NavigateToEpicDetail", "NavigateToStoryDetail"} =>
            /\ Len(pages') = Len(pages) + 1
            /\ SubSeq(pages', 1, Len(pages)) = pages
            /\ get_current_page(pages').kind =
                 IF ret'.action = "NavigateToEpicDetail" THEN "EpicDetail" ELSE "StoryDetail"
            /\ pop(pages') = pages]_vars
    /\ [][(ret'.action = "NavigateToPreviousPage" /\ pages # <<>>) =>
            /\ Len(pages') = Len(pages) - 1
            /\ \A i \in 1..Len(pages') : pages'[i] = pages[i]]_vars

\* C9 witness: a pop has brought back Home with an EpicDetail page on top
\* of it (the stack there was before a third page was pushed)
C9_Witness ==
    /\ ret = Call("NavigateToPreviousPage", "Ok")
    /\ \E e \in NavEpicIds : pages = <<HomePage, EpicDetail(e)>>

\* C10 as stated: NavigateToPreviousPage on a stack of one page or none
\* leaves the stack as it was and returns Ok.
C10_PopAtOnePageIsNoOp ==
    [][(ret'.action = "NavigateToPreviousPage" /\ Len(pages) <= 1) =>
         (pages' = pages /\ ret'.res = "Ok")]_vars

\* C10 amended: NavigateToPreviousPage on an empty stack leaves it empty, on
\* a stack of one page removes that page; either way the stack is empty
\* afterwards, the store is as it was and the call returns Ok.
C10_PopAtOnePageEmptiesStack ==
    [][(ret'.action = "NavigateToPreviousPage" /\ Len(pages) <= 1) =>
         (pages' = <<>> /\ db' = db /\ ret'.res = "Ok")]_vars

\* C10 witness: NavigateToPreviousPage has left the stack empty
C10_Witness ==
    /\ ret = Call("NavigateToPreviousPage", "Ok")
    /\ pages = <<>>

(* the Action kinds of models.rs, by what handle_action does with them *)
NavigationActions ==
    {"NavigateToEpicDetail", "NavigateToStoryDetail", "NavigateToPreviousPage", "Exit"}
PersistenceActions ==
    {"CreateEpic", "UpdateEpicStatus", "DeleteEpic", "CreateStory", "UpdateStoryStatus",
     "DeleteStory"}

\* C11: NavigateToPreviousPage removes exactly the top page of a non-empty
\* stack, the only page Home included (no current page is left then); on an
\* empty stack it leaves the stack empty; it returns Ok.
C11_PopRemovesTopPage ==
    [][ret'.action = "NavigateToPreviousPage" =>
         /\ ret'.res = "Ok"
         /\ pages # <<>> => (/\ Len(pages') = Len(pages) - 1
                             /\ pages = pages' \o <<get_current_page(pages)>>)
         /\ pages = <<HomePage>> => (pages' = <<>> /\ get_current_page(pages') = None)
         /\ pages = <<>> => pages' = <<>>]_vars

\* C11 witness: Home was popped, there is no current page, and the store
\* holds an epic
C11_Witness ==
    /\ ret = Call("NavigateToPreviousPage", "Ok")
    /\ get_current_page(pages) = None
    /\ db.epics # HashMap_new

\* C12: after any sequence of handle_action calls on a new Navigator, calls
\* made after the stack became empty included, a non-empty stack has the
\* Home page at its bottom.
C12_BottomPageIsHome == pages # <<>> => pages[1] = HomePage

\* C13: whenever handle_action returns an error, the page stack is what it
\* was before the call.
C13_ErrorKeepsStack == [][ret'.res # "Ok" => pages' = pages]_vars

\* C13 witness: a call has failed with pages above Home on the stack
C13_Witness ==
    /\ ret.res \in {"NotFound", "WriteError", "InvalidStatus"}
    /\ Len(pages) >= 2
    /\ pages[1] = HomePage

\* C14: navigation actions leave the DBState unchanged and persistence
\* actions leave the page stack unchanged, also when the item deleted is
\* the one a page on the stack shows.
C14_NavigationAndPersistenceApart ==
    [][/\ ret'.action \in NavigationActions => (db' = db /\ issued' = issued)
       /\ ret'.action \in PersistenceActions => pages' = pages]_vars

\* C14 witness: an epic was deleted while its EpicDetail page is on the
\* stack, which still holds the id of the epic that is gone
C14_Witness ==
    /\ ret = Call("DeleteEpic", "Ok")
    /\ \E i \in 1..Len(pages) :
        /\ pages[i].kind = "EpicDetail"
        /\ pages[i].epic_id \in 1..db.last_item_id
        /\ pages[i].epic_id \notin DOMAIN db.epics

\* C18: NavigateToEpicDetail and NavigateToStoryDetail have no
\* precondition: for any ids, existing or not, the call returns Ok, the
\* stack grows by one page of the kind asked for that carries the ids
\* given, and the pages below are unchanged.
C18_NavigateAlwaysPushes ==
    [][/\ ret'.action = "NavigateToEpicDetail" =>
            \A e \in NavEpicIds : NavigateToEpicDetail(e) =>
                /\ ret'.res = "Ok"
                /\ Len(pages') = Len(pages) + 1
                /\ SubSeq(pages', 1, Len(pages)) = pages
                /\ pages'[Len(pages')].kind = "EpicDetail"
                /\ pages'[Len(pages')].epic_id = e
       /\ ret'.action = "NavigateToStoryDetail" =>
            \A e \in NavEpicIds, s \in NavStoryIds : NavigateToStoryDetail(e, s) =>
                /\ ret'.res = "Ok"
                /\ Len(pages') = Len(pages) + 1
                /\ SubSeq(pages', 1, Len(pages)) = pages
                /\ pages'[Len(pages')].kind = "StoryDetail"
                /\ pages'[Len(pages')].epic_id = e
                /\ pages'[Len(pages')].story_id = s]_vars

\* C18 witness: a StoryDetail page was pushed for an epic and a story that
\* do not exist, on top of an EpicDetail page
C18_Witness ==
    /\ ret = Call("NavigateToStoryDetail", "Ok")
    /\ Len(pages) = 3
    /\ pages[2].kind = "EpicDetail"
    /\ pages[3].kind = "StoryDetail"
    /\ pages[3].epic_id \notin DOMAIN db.epics
    /\ pages[3].story_id \notin DOMAIN db.stories

\* C16: every store operation that fails with a not-found error leaves the
\* whole DBState unchanged, last_item_id included: a failed create_story
\* consumes no id and inserts no story.  Stated of every absent id in every
\* reachable state, and of every call that returned not-found.
C16_NotFoundChangesNothing ==
    /\ [](\A w \in BOOLEAN :
            /\ \A e \in Ids \ DOMAIN db.epics :
                /\ \A n \in StoryNames :
                    create_story(db, Story_new(n, ""), e, w) = Err(db, "NotFound")
                /\ \A st \in Status : update_epic_status(db, e, st, w) = Err(db, "NotFound")
                /\ delete_epic(db, e, w) = Err(db, "NotFound")
                /\ \A s \in Ids : delete_story(db, e, s, w) = Err(db, "NotFound")
            /\ \A s \in Ids \ DOMAIN db.stories :
                \A st \in Status : update_story_status(db, s, st, w) = Err(db, "NotFound"))
    /\ [][ret'.res = "NotFound" => (db' = db /\ issued' = issued)]_vars

\* C16 witness: create_story failed on an epic that was deleted; the one id
\* issued so far is still the last one
C16_Witness ==
    /\ ret = Call("CreateStory", "NotFound")
    /\ db.last_item_id = 1
    /\ issued = <<1>>
    /\ db.epics = HashMap_new

\* the index of x in a Vec that holds it
Position(seq, x) == CHOOSE k \in 1..Len(seq) : seq[k] = x

\* what delete_story(epic_id, story_id) on an existing epic makes of the
\* state `before`
DeletedStory(before, after, epic_id, story_id) ==
    LET old == before.epics[epic_id].stories
        new == after.epics[epic_id].stories
    IN  /\ story_id \notin Range(new)
        /\ story_id \notin DOMAIN after.stories
        /\ Range(new) = Range(old) \ {story_id}
        /\ \A i, j \in 1..Len(new) :
            i < j => Position(old, new[i]) < Position(old, new[j])
        /\ after.epics[epic_id] = [before.epics[epic_id] EXCEPT !.stories = new]
        /\ DOMAIN after.epics = DOMAIN before.epics
        /\ \A e \in DOMAIN before.epics \ {epic_id} : after.epics[e] = before.epics[e]
        /\ DOMAIN after.stories = DOMAIN before.stories \ {story_id}
        /\ \A s \in DOMAIN after.stories : after.stories[s] = before.stories[s]
        /\ after.last_item_id = before.last_item_id

\* C17: delete_story(epic_id, story_id) on an existing epic succeeds
\* (its write succeeding) and is idempotent: afterwards story_id is in
\* neither the epic's list nor the table, listed before or not; a second
\* call changes nothing; the other ids of the list keep their order; other
\* epics and stories are unchanged.  Stated of every epic and every story id
\* in every state the store reaches.
C17_DeleteStoryIdempotent ==
    \A e \in DOMAIN db.epics, s \in Ids :
        LET once == delete_story(db, e, s, TRUE)
            twice == delete_story(once.state, e, s, TRUE)
        IN  /\ once.res = "Ok"
            /\ DeletedStory(db, once.state, e, s)
            /\ twice.res = "Ok"
            /\ twice.state = once.state

\* C17 witness: story 3 was deleted from between stories 2 and 4 of epic 1
C17_Witness ==
    /\ ret = Call("DeleteStory", "Ok")
    /\ 1 \in DOMAIN db.epics
    /\ db.epics[1].stories = <<2, 4>>
    /\ DOMAIN db.stories = {2, 4}

\* all of `after` but the status of the epics in `but_epics` and of the
\* stories in `but_stories` is as in `before`
SameButStatus(before, after, but_epics, but_stories) ==
    /\ after.last_item_id = before.last_item_id
    /\ DOMAIN after.epics = DOMAIN before.epics
    /\ DOMAIN after.stories = DOMAIN before.stories
    /\ \A e \in DOMAIN before.epics :
        /\ after.epics[e].name = before.epics[e].name
        /\ after.epics[e].description = before.epics[e].description
        /\ after.epics[e].stories = before.epics[e].stories
        /\ e \notin but_epics => after.epics[e].status = before.epics[e].status
    /\ \A s \in DOMAIN before.stories :
        /\ after.stories[s].name = before.stories[s].name
        /\ after.stories[s].description = before.stories[s].description
        /\ s \notin but_stories => after.stories[s].status = before.stories[s].status

\* C19: when the update-status prompt yields a status s and the item
\* exists (the write succeeding), UpdateEpicStatus / UpdateStoryStatus sets
\* that item's status to s, whatever s and the current status are, and
\* changes nothing else: name, description, the epic's stories list, every
\* other item and last_item_id stay.
C19_StatusUpdateSetsOnlyStatus ==
    [][/\ ret'.action = "UpdateEpicStatus" =>
            \A e \in DOMAIN db.epics, st \in Status :
                UpdateEpicStatus(e, st, TRUE) =>
                    /\ ret'.res = "Ok"
                    /\ db'.epics[e].status = st
                    /\ SameButStatus(db, db', {e}, {})
       /\ ret'.action = "UpdateStoryStatus" =>
            \A s \in DOMAIN db.stories, st \in Status :
                UpdateStoryStatus(s, st, TRUE) =>
                    /\ ret'.res = "Ok"
                    /\ db'.stories[s].status = st
                    /\ SameButStatus(db, db', {}, {s})]_vars

\* C19 witness: an epic was set to Closed and its story, after it, to
\* Resolved: neither is the status next to Open, and the story's update
\* left the epic's status and list alone
C19_Witness ==
    /\ ret = Call("UpdateStoryStatus", "Ok")
    /\ \E e \in DOMAIN db.epics, s \in DOMAIN db.stories :
        /\ db.epics[e].status = "Closed"
        /\ db.epics[e].stories = <<s>>
        /\ db.stories[s].status = "Resolved"

\* C20: get_column_string(text, width) returns exactly width characters:
\* width dots for width 0..3 whatever the text; for width >= 4 the text
\* itself when it is width long, the text padded with spaces on the right
\* when shorter, its first width - 3 characters and "..." when longer.
C20_ColumnHasWidth ==
    column.called =>
        LET text == column.text
            width == column.width
            out == column.out
        IN  /\ Len(out) = width
            /\ width <= 3 => \A i \in 1..width : out[i] = "."
            /\ width >= 4 /\ Len(text) = width => out = text
            /\ width >= 4 /\ Len(text) < width =>
                \A i \in 1..width : out[i] = IF i <= Len(text) THEN text[i] ELSE " "
            /\ width >= 4 /\ Len(text) > width =>
                \A i \in 1..width : out[i] = IF i <= width - 3 THEN text[i] ELSE "."

\* C20 witness: a text of six characters in a column of four, as the
\* test's "testmetest" becomes "t..."
C20_Witness ==
    /\ column.called
    /\ Len(column.text) = 6
    /\ column.width = 4
    /\ column.out = <<column.text[1], ".", ".", ".">>

\* main has left its loop, with Ok(()) or with the error
Stopped == main.pc \in {"Ok", "Err"}

\* C15: each iteration of main's loop gets the current page, draws it,
\* reads a line, calls page.handle_input and calls handle_action only with
\* an action handle_input returned.  The loop stops with success exactly
\* when there is no current page and with the error as soon as draw_page,
\* handle_input or handle_action fails; once stopped, nothing is drawn,
\* read or dispatched.  When handle_input returns no action the navigator
\* and the store are unchanged and the next iteration draws the same page.
C15_DriverLoop ==
    /\ [](/\ main.pc \in {"draw_page", "get_user_input", "handle_input"}
          /\ main.prev # None
          /\ main.action = None
          => main.page = main.prev)
    /\ [][/\ ~Stopped
          /\ main.pc # "handle_action" => UNCHANGED <<db, pages, issued, ret>>
          /\ main.pc = "get_current_page" =>
                /\ main'.pc = IF pages = <<>> THEN "Ok" ELSE "draw_page"
                /\ pages # <<>> => main'.page = pages[Len(pages)]
          /\ main.pc = "draw_page" =>
                \A ok \in BOOLEAN : DrawPage(ok) =>
                    main'.pc = IF ok THEN "get_user_input" ELSE "Err"
          /\ main.pc = "get_user_input" => main'.pc = "handle_input"
          /\ main.pc = "handle_input" =>
                \A ok \in BOOLEAN, a \in {None} \cup InputActions : HandleInput(ok, a) =>
                    main'.pc = IF ~ok THEN "Err"
                               ELSE IF a = None THEN "get_current_page"
                               ELSE "handle_action"
          /\ main.pc = "handle_action" =>
                /\ main.action # None
                /\ ret'.action = main.action.kind
                /\ main'.pc = IF ret'.res = "Ok" THEN "get_current_page" ELSE "Err"
          /\ main'.pc = "Ok" => (main.pc = "get_current_page" /\ pages = <<>>)]_vars

\* C15 witness: the loop stopped with success after Exit; its last two
\* iterations both drew the Home page, and an epic was created on the way
C15_Witness ==
    /\ main.pc = "Ok"
    /\ ret = Call("Exit", "Ok")
    /\ main.page = HomePage
    /\ main.prev = HomePage
    /\ db.last_item_id = 1

====
